---------------------------- MODULE Spec2Model ----------------------------
(* Model of the xx_mutex_lock crate: the spin Mutex, the RWLock, the Once   *)
(* gate, the OnceLock cell built on Once and the LazyLock built on          *)
(* OnceLock.  Every atomic operation of the source is one step of one       *)
(* thread; threads interleave freely.                                       *)
EXTENDS Integers, Sequences, FiniteSets, TLC

(* ------------------------------ bounds ---------------------------------- *)
\* number of threads sharing one instance
NThreads == 2
\* iterations of the lock / increment / drop loop each thread runs
Incs == 2
\* guards one thread keeps alive at the same time on the RWLock
MaxGuards == 2
\* width in bits of the signed lock word (isize) in the model
IsizeBits == 3
\* operations (call_once, get, set, get_or_init, force) one thread starts
MaxCalls == 2

\* payload the mutex test starts from (Mutex::new(1))
InitPayload == 1

Threads == 1..NThreads

VARIABLES
    \* ---- Mutex<T> ----
    mlock,      \* Mutex.lock : AtomicBool
    mdata,      \* Mutex.data : the payload
    mpc,        \* position of each thread in the test loop / in lock()
    mtmp,       \* the value a thread read from the payload for `*locked += 1`
    miter       \* loop iterations a thread has completed

VARIABLES
    \* ---- RWLock<T> ----
    rwlock,     \* RWLock.lock : AtomicIsize
    rpc,        \* position of each thread inside read()/try_read()/write()
    refuse,     \* read_request: `readers >= MAX_READERS && readers < 0`, as
                \* evaluated on the value its load returned
    rguards,    \* live RWLockReadGuards each thread holds
    wguards     \* live RWLockWriteGuards each thread holds

VARIABLES
    \* ---- Once ----
    status,     \* Once.status : AtomicU8
    opc,        \* position of each thread inside call_once / call / poll
    ocount,     \* how many times `f()` (once.rs line 94) has been executed
    ocalls      \* operations each thread has started

VARIABLES
    \* ---- OnceLock<T> (over the Once above) and LazyLock<T, F> ----
    slot,       \* OnceLock.data : MaybeUninit<T>; Uninit until written
    lpc,        \* position of each thread inside get / try_get_or_init
    lop,        \* the operation the thread is in (or was last in)
    lval,       \* the value this call brought: set's `data`, or what f returns
    ldata,      \* set's local `data`: TRUE while it is still Some(value)
    lret,       \* what the thread's last operation returned
    linit,      \* LazyLock.init : TRUE while it is Some(f)
    fcount      \* how many times the LazyLock's initializer F has been invoked

mvars == <<mlock, mdata, mpc, mtmp, miter>>
rvars == <<rwlock, rpc, refuse, rguards, wguards>>
ovars == <<status, opc, ocount, ocalls>>
lvars == <<slot, lpc, lop, lval, ldata, lret, linit, fcount>>

vars == <<mlock, mdata, mpc, mtmp, miter,
          rwlock, rpc, refuse, rguards, wguards,
          status, opc, ocount, ocalls,
          slot, lpc, lop, lval, ldata, lret, linit, fcount>>

(* ============================== Mutex =================================== *)

\* Mutex::new(data): flag false, payload stored; every thread at its loop head
MutexNew ==
    /\ mlock = FALSE
    /\ mdata = InitPayload
    /\ mpc = [t \in Threads |-> "loop"]
    /\ mtmp = [t \in Threads |-> 0]
    /\ miter = [t \in Threads |-> 0]

\* a thread holds a live MutexGuard from the return of lock() to the guard's drop
MutexGuardAlive(t) == mpc[t] \in {"held", "loaded", "drop", "unwind"}

MutexGuards == {t \in Threads : MutexGuardAlive(t)}

\* `for _ in 0..100`: another iteration calls lock(), otherwise the thread ends
MutexLoop(t) ==
    /\ mpc[t] = "loop"
    /\ mpc' = [mpc EXCEPT ![t] = IF miter[t] < Incs THEN "cas" ELSE "done"]
    /\ UNCHANGED <<mlock, mdata, mtmp, miter>>

\* mutant: the exchange compares against the wrong value and also wins on true
MutexLockCas_NoCompare(t) ==
    /\ mpc[t] = "cas"
    /\ \/ /\ mlock' = TRUE
          /\ mpc' = [mpc EXCEPT ![t] = "held"]
       \/ /\ mlock' = mlock
          /\ mpc' = [mpc EXCEPT ![t] = "spin"]
    /\ UNCHANGED <<mdata, mtmp, miter>>

\* mutant: the result of the exchange is ignored, lock() returns after one try
MutexLockCas_IgnoreResult(t) ==
    /\ mpc[t] = "cas"
    /\ mlock' = TRUE
    /\ mpc' = [mpc EXCEPT ![t] = "held"]
    /\ UNCHANGED <<mdata, mtmp, miter>>

\* lock(): compare_exchange_weak(false, true).  It succeeds only on false; it
\* fails when the flag is true and may fail spuriously when it is false.
MutexLockCas(t) ==
    /\ mpc[t] = "cas"
    /\ \/ /\ mlock = FALSE
          /\ mlock' = TRUE
          /\ mpc' = [mpc EXCEPT ![t] = "held"]
       \/ /\ mlock' = mlock
          /\ mpc' = [mpc EXCEPT ![t] = "spin"]
    /\ UNCHANGED <<mdata, mtmp, miter>>

\* lock(): `while self.is_locked() { spin_loop() }`, then back to the exchange
MutexSpin(t) ==
    /\ mpc[t] = "spin"
    /\ mpc' = [mpc EXCEPT ![t] = IF mlock THEN "spin" ELSE "cas"]
    /\ UNCHANGED <<mlock, mdata, mtmp, miter>>

\* `*locked += 1`, first half: read the payload through the guard
MutexDeref(t) ==
    /\ mpc[t] = "held"
    /\ mtmp' = [mtmp EXCEPT ![t] = mdata]
    /\ mpc' = [mpc EXCEPT ![t] = "loaded"]
    /\ UNCHANGED <<mlock, mdata, miter>>

\* `*locked += 1`, second half: write the payload through the guard
MutexDerefMut(t) ==
    /\ mpc[t] = "loaded"
    /\ mdata' = mtmp[t] + 1
    /\ mpc' = [mpc EXCEPT ![t] = "drop"]
    /\ UNCHANGED <<mlock, mtmp, miter>>

\* the critical section panics while the guard is alive: before the read,
\* between the read and the write, or after the write; unwinding starts
MutexPanic(t) ==
    /\ mpc[t] \in {"held", "loaded", "drop"}
    /\ mpc' = [mpc EXCEPT ![t] = "unwind"]
    /\ UNCHANGED <<mlock, mdata, mtmp, miter>>

\* mutant: the guard releases the lock only when it is not dropped by a panic
MutexGuardDrop_SkipsOnPanic(t) ==
    /\ mpc[t] \in {"drop", "unwind"}
    /\ mlock' = IF mpc[t] = "drop" THEN FALSE ELSE mlock
    /\ miter' = [miter EXCEPT ![t] = IF mpc[t] = "drop" THEN @ + 1 ELSE @]
    /\ mpc' = [mpc EXCEPT ![t] = IF mpc[t] = "drop" THEN "loop" ELSE "panicked"]
    /\ UNCHANGED <<mdata, mtmp>>

\* MutexGuard::drop: store false, unconditionally.  At the end of the loop
\* body the iteration ends; dropped by unwinding, the panic ends the thread.
MutexGuardDrop(t) ==
    /\ mpc[t] \in {"drop", "unwind"}
    /\ mlock' = FALSE
    /\ miter' = [miter EXCEPT ![t] = IF mpc[t] = "drop" THEN @ + 1 ELSE @]
    /\ mpc' = [mpc EXCEPT ![t] = IF mpc[t] = "drop" THEN "loop" ELSE "panicked"]
    /\ UNCHANGED <<mdata, mtmp>>

MutexNext ==
    \E t \in Threads :
        \/ MutexLoop(t) /\ UNCHANGED <<rvars, ovars, lvars>>
        \/ MutexLockCas(t) /\ UNCHANGED <<rvars, ovars, lvars>>
        \/ MutexSpin(t) /\ UNCHANGED <<rvars, ovars, lvars>>
        \/ MutexDeref(t) /\ UNCHANGED <<rvars, ovars, lvars>>
        \/ MutexDerefMut(t) /\ UNCHANGED <<rvars, ovars, lvars>>
        \/ MutexPanic(t) /\ UNCHANGED <<rvars, ovars, lvars>>
        \/ MutexGuardDrop(t) /\ UNCHANGED <<rvars, ovars, lvars>>

(* ---- claims about Mutex (checked under SpecMutex) ---- *)

\* C1: at most one MutexGuard is alive at any time, and while one is alive the
\* flag is true (lock() returned only after its false->true exchange and nobody
\* else got in before the drop).
C1_MutualExclusion ==
    /\ Cardinality(MutexGuards) <= 1
    /\ (MutexGuards # {} => mlock = TRUE)

\* a guard is alive while another thread has failed its exchange and spins
C1_Witness ==
    \E t, u \in Threads : t # u /\ MutexGuardAlive(t) /\ mpc[u] = "spin"

\* C9: when every thread has finished its Incs iterations of lock, read,
\* write payload + 1, drop, the payload is the initial payload plus the total
\* number of increments.
C9_NoLostUpdate ==
    (\A t \in Threads : mpc[t] = "done")
        => mdata = InitPayload + NThreads * Incs

\* every thread has run all its iterations and the lock is free again
C9_Witness ==
    /\ \A t \in Threads : mpc[t] = "done" /\ miter[t] = Incs
    /\ mlock = FALSE

\* C14: the Mutex does not poison.  Whenever no guard is alive the flag is
\* clear, also after a panic, and a lock() call can then acquire the lock;
\* the drop of a guard by unwinding clears the flag
\* and leaves the payload as the panicking section left it; and the payload
\* changes only through the write of a thread that holds the guard.
C14_NoPoison ==
    /\ [](MutexGuards = {} => mlock = FALSE)
    /\ [](\A t \in Threads :
             (mpc[t] = "cas" /\ MutexGuards = {})
                 => ENABLED (MutexLockCas(t) /\ mpc'[t] = "held"))
    /\ [][\A t \in Threads :
             (mpc[t] = "unwind" /\ mpc'[t] = "panicked")
                 => (mlock' = FALSE /\ mdata' = mdata)]_vars
    /\ [][mdata' # mdata =>
             \E t \in Threads : mpc[t] = "loaded" /\ mpc'[t] = "drop"]_vars

\* thread t panicked in its first critical section after writing the payload,
\* and thread u, holding the lock after it, has read a payload that includes
\* t's write
C14_Witness ==
    \E t, u \in Threads :
        /\ t # u
        /\ mpc[t] = "panicked" /\ miter[t] = 0
        /\ mpc[u] = "loaded"
        /\ mdata = InitPayload + miter[u] + 1
        /\ mtmp[u] = mdata

(* ============================== RWLock ================================== *)

READED == 1
WRITED == -1

\* two's complement wrap of the lock word (fetch_add / fetch_sub wrap)
WrapIsize(x) ==
    ((x + 2 ^ (IsizeBits - 1)) % (2 ^ IsizeBits)) - 2 ^ (IsizeBits - 1)

\* read_request: const MAX_READERS: isize = core::isize::MAX
MAX_READERS == 2 ^ (IsizeBits - 1) - 1

RECURSIVE SumOver(_, _)
SumOver(f, S) ==
    IF S = {} THEN 0
    ELSE LET x == CHOOSE y \in S : TRUE IN f[x] + SumOver(f, S \ {x})

\* guards outstanding on the instance
ReadGuards == SumOver(rguards, Threads)
WriteGuards == SumOver(wguards, Threads)

\* RWLock::new(data): lock word 0, no guard handed out
RWLockNew ==
    /\ rwlock = 0
    /\ rpc = [t \in Threads |-> "idle"]
    /\ refuse = [t \in Threads |-> FALSE]
    /\ rguards = [t \in Threads |-> 0]
    /\ wguards = [t \in Threads |-> 0]

\* a thread takes a further guard only while it holds fewer than MaxGuards
CanAcquire(t) == rpc[t] = "idle" /\ rguards[t] + wguards[t] < MaxGuards

\* write_request: compare_exchange(0, WRITED); the new word and whether it won
WriteRequest == IF rwlock = 0 THEN <<WRITED, TRUE>> ELSE <<rwlock, FALSE>>

\* try_write(): Some(guard) iff write_request() succeeded
TryWrite(t) ==
    /\ CanAcquire(t)
    /\ rwlock' = WriteRequest[1]
    /\ wguards' = [wguards EXCEPT ![t] = IF WriteRequest[2] THEN @ + 1 ELSE @]
    /\ UNCHANGED <<rpc, refuse, rguards>>

\* write(): `loop { match self.try_write() ... }`, one try_write per step
Write(t) ==
    /\ \/ CanAcquire(t)
       \/ rpc[t] = "write"
    /\ rwlock' = WriteRequest[1]
    /\ wguards' = [wguards EXCEPT ![t] = IF WriteRequest[2] THEN @ + 1 ELSE @]
    /\ rpc' = [rpc EXCEPT ![t] = IF WriteRequest[2] THEN "idle" ELSE "write"]
    /\ UNCHANGED <<refuse, rguards>>

\* read_request, first atomic operation: `readers = self.lock.load(Acquire)`
\* and the test `readers >= MAX_READERS && readers < 0` on the value loaded.
\* try_read() goes on to "try_read", read() (or its retry) to "read".
ReadRequestLoad(t) ==
    /\ \/ /\ CanAcquire(t)
          /\ \E next \in {"try_read", "read"} : rpc' = [rpc EXCEPT ![t] = next]
       \/ /\ rpc[t] = "read_retry"
          /\ rpc' = [rpc EXCEPT ![t] = "read"]
    /\ refuse' = [refuse EXCEPT ![t] = (rwlock >= MAX_READERS /\ rwlock < 0)]
    /\ UNCHANGED <<rwlock, rguards, wguards>>

\* read_request, the rest: `if <test> { -1 } else
\* { self.lock.fetch_add(READED) }`: the value returned and the new word
ReadRequest(t) ==
    IF refuse[t]
    THEN <<-1, rwlock>>
    ELSE <<rwlock, WrapIsize(rwlock + READED)>>

\* try_read() / read(): `if self.read_request() >= 0 { Some(guard) } else
\* { None }`; read() retries on None.  The local `readers` ends with the call.
ReadRequestAdd(t) ==
    /\ rpc[t] \in {"try_read", "read"}
    /\ rwlock' = ReadRequest(t)[2]
    /\ rguards' = [rguards EXCEPT ![t] = IF ReadRequest(t)[1] >= 0 THEN @ + 1 ELSE @]
    /\ rpc' = [rpc EXCEPT ![t] =
                 IF ReadRequest(t)[1] >= 0 \/ rpc[t] = "try_read"
                 THEN "idle" ELSE "read_retry"]
    /\ refuse' = [refuse EXCEPT ![t] = FALSE]
    /\ UNCHANGED wguards

\* RWLockReadGuard::drop: fetch_sub(READED)
ReadGuardDrop(t) ==
    /\ rpc[t] = "idle"
    /\ rguards[t] > 0
    /\ rwlock' = WrapIsize(rwlock - READED)
    /\ rguards' = [rguards EXCEPT ![t] = @ - 1]
    /\ UNCHANGED <<rpc, refuse, wguards>>

\* RWLockWriteGuard::drop: fetch_sub(WRITED)
WriteGuardDrop(t) ==
    /\ rpc[t] = "idle"
    /\ wguards[t] > 0
    /\ rwlock' = WrapIsize(rwlock - WRITED)
    /\ wguards' = [wguards EXCEPT ![t] = @ - 1]
    /\ UNCHANGED <<rpc, refuse, rguards>>

RWLockNext ==
    \E t \in Threads :
        \/ TryWrite(t) /\ UNCHANGED <<mvars, ovars, lvars>>
        \/ Write(t) /\ UNCHANGED <<mvars, ovars, lvars>>
        \/ ReadRequestLoad(t) /\ UNCHANGED <<mvars, ovars, lvars>>
        \/ ReadRequestAdd(t) /\ UNCHANGED <<mvars, ovars, lvars>>
        \/ ReadGuardDrop(t) /\ UNCHANGED <<mvars, ovars, lvars>>
        \/ WriteGuardDrop(t) /\ UNCHANGED <<mvars, ovars, lvars>>

\* one step of thread t that a scheduler which keeps running t makes it
\* take: the next try of a pending write() or read(), the rest of a
\* read_request under way, and the drop of a guard it holds
RWLockStep(t) ==
    \/ rpc[t] = "write" /\ Write(t)
    \/ rpc[t] = "read_retry" /\ ReadRequestLoad(t)
    \/ ReadRequestAdd(t)
    \/ ReadGuardDrop(t)
    \/ WriteGuardDrop(t)

(* ---- claims about RWLock (checked under SpecRWLock) ---- *)

\* C2: a live write guard never coexists with a live read guard nor with
\* another live write guard.
C2_WriterExclusive ==
    WriteGuards = 0 \/ (WriteGuards = 1 /\ ReadGuards = 0)

\* C3: while a write guard is outstanding, a try_read that returns (the step
\* that ends read_request) returns None: it hands out no read guard.
C3_TryReadFailsUnderWriter ==
    [][\A t \in Threads :
          (WriteGuards > 0 /\ rpc[t] \in {"try_read", "read"} /\ rpc'[t] # rpc[t])
              => rguards'[t] = rguards[t]]_vars

\* C4: while a read guard or a write guard is outstanding, no try_write
\* returns a guard.
C4_TryWriteFailsWhenHeld ==
    [][\A t \in Threads :
          (ReadGuards + WriteGuards > 0) => wguards'[t] <= wguards[t]]_vars

\* C16: the reader count is protected against overflow.  A read_request that
\* finds the word at MAX_READERS hands out no guard and leaves the word
\* unchanged, and no read_request takes the word from a value >= 0 to a
\* negative one.
C16_ReaderOverflowProtected ==
    [][\A t \in Threads :
          (rpc[t] \in {"try_read", "read"} /\ rpc'[t] # rpc[t])
              => /\ rwlock = MAX_READERS
                      => (rwlock' = rwlock /\ rguards'[t] = rguards[t])
                 /\ rwlock >= 0 => rwlock' >= 0]_vars

\* C17: a try_read that returns None (it ends without a new read guard)
\* leaves the lock word as it was.
C17_FailedTryReadRestoresWord ==
    [][\A t \in Threads :
          (rpc[t] = "try_read" /\ rpc'[t] = "idle" /\ rguards'[t] = rguards[t])
              => rwlock' = rwlock]_vars

\* C18: between operations the lock word encodes the outstanding guards: the
\* number of read guards when no write guard is outstanding (0 when there is
\* no guard at all), and -1 when one write guard and no read guard is.
C18_WordEncodesGuards ==
    (\A t \in Threads : rpc[t] = "idle") =>
        /\ WriteGuards = 0 => rwlock = ReadGuards
        /\ (WriteGuards = 1 /\ ReadGuards = 0) => rwlock = WRITED

\* C21: a pending write() is not left spinning for ever on a lock nobody
\* holds: it never becomes true for good that thread t is inside write()
\* while no guard is outstanding and no read acquisition is under way.
\* (checked under SpecRWLockFair)
C21_PendingWriteReturns ==
    \A t \in Threads :
        []<>~(/\ rpc[t] = "write"
              /\ ReadGuards = 0
              /\ WriteGuards = 0
              /\ \A u \in Threads : rpc[u] \notin {"try_read", "read", "read_retry"})

(* =============================== Once =================================== *)

INCOMPLETE == 0
RUNNING == 1
COMPLETE == 2
PANICKED == 3

\* Once::new(): status INCOMPLETE; no thread is inside call_once
OnceNew ==
    /\ status = INCOMPLETE
    /\ opc = [t \in Threads |-> "idle"]
    /\ ocount = 0
    /\ ocalls = [t \in Threads |-> 0]

\* is_completed(): status.load(Acquire) == COMPLETE
IsCompleted == status = COMPLETE

\* call_once(f): `if !self.is_completed() { self.call(f) }`
CallOnce(t) ==
    /\ opc[t] = "enter"
    /\ opc' = [opc EXCEPT ![t] = IF IsCompleted THEN "returned" ELSE "cas"]
    /\ UNCHANGED <<status, ocount, ocalls>>

\* mutant: the exchange also wins when another caller is RUNNING
CallCas_WinsOnRunning(t) ==
    /\ opc[t] = "cas"
    /\ status' = IF status \in {INCOMPLETE, RUNNING} THEN RUNNING ELSE status
    /\ opc' = [opc EXCEPT ![t] =
                 CASE status \in {INCOMPLETE, RUNNING} -> "run"
                   [] status = PANICKED -> "panicked"
                   [] OTHER -> "returned"]
    /\ UNCHANGED <<ocount, ocalls>>

\* mutant: a poisoned Once is treated like a fresh one and runs f again
CallCas_RerunsAfterPanic(t) ==
    /\ opc[t] = "cas"
    /\ status' = IF status \in {INCOMPLETE, PANICKED} THEN RUNNING ELSE status
    /\ opc' = [opc EXCEPT ![t] =
                 CASE status \in {INCOMPLETE, PANICKED} -> "run"
                   [] status = RUNNING -> "poll"
                   [] OTHER -> "returned"]
    /\ UNCHANGED <<ocount, ocalls>>

\* call(f), one turn of its loop: compare_exchange(INCOMPLETE, RUNNING).
\* Ok: this caller goes on to run f.  Err(PANICKED): panic.  Err(RUNNING):
\* poll.  Err(COMPLETE): return.  (A strong exchange does not fail on
\* INCOMPLETE, so `Err(INCOMPLETE) => continue` is never taken.)
CallCas(t) ==
    /\ opc[t] = "cas"
    /\ status' = IF status = INCOMPLETE THEN RUNNING ELSE status
    /\ opc' = [opc EXCEPT ![t] =
                 CASE status = INCOMPLETE -> "run"
                   [] status = PANICKED -> "panicked"
                   [] status = RUNNING -> "poll"
                   [] OTHER -> "returned"]
    /\ UNCHANGED <<ocount, ocalls>>

\* mutant: poll keeps spinning on a poisoned instance instead of panicking
Poll_SpinsOnPanicked(t) ==
    /\ opc[t] = "poll"
    /\ opc' = [opc EXCEPT ![t] =
                 CASE status = INCOMPLETE -> "cas"
                   [] status = COMPLETE -> "returned"
                   [] OTHER -> "poll"]
    /\ UNCHANGED <<status, ocount, ocalls>>

\* mutant: poll gives up waiting and reports success while still RUNNING
Poll_ReturnsEarly(t) ==
    /\ opc[t] = "poll"
    /\ opc' = [opc EXCEPT ![t] =
                 CASE status = INCOMPLETE -> "cas"
                   [] status = PANICKED -> "panicked"
                   [] OTHER -> "returned"]
    /\ UNCHANGED <<status, ocount, ocalls>>

\* poll(), one load: INCOMPLETE => Err (call's loop continues), RUNNING =>
\* spin, COMPLETE => Ok (call returns), PANICKED => panic
Poll(t) ==
    /\ opc[t] = "poll"
    /\ opc' = [opc EXCEPT ![t] =
                 CASE status = INCOMPLETE -> "cas"
                   [] status = RUNNING -> "poll"
                   [] status = COMPLETE -> "returned"
                   [] OTHER -> "panicked"]
    /\ UNCHANGED <<status, ocount, ocalls>>

\* mutant: the unwinding guard stores nothing
FinishDrop_NoStore(t) ==
    /\ opc[t] = "unwind"
    /\ opc' = [opc EXCEPT ![t] = "panicked"]
    /\ UNCHANGED <<status, ocount, ocalls>>

\* mutant: the unwinding guard resets the status for another attempt
FinishDrop_StoresIncomplete(t) ==
    /\ opc[t] = "unwind"
    /\ status' = INCOMPLETE
    /\ opc' = [opc EXCEPT ![t] = "panicked"]
    /\ UNCHANGED <<ocount, ocalls>>

\* f panicked: unwinding drops `finish`, Finish::drop stores PANICKED, and the
\* panic leaves call_once
FinishDrop(t) ==
    /\ opc[t] = "unwind"
    /\ status' = PANICKED
    /\ opc' = [opc EXCEPT ![t] = "panicked"]
    /\ UNCHANGED <<ocount, ocalls>>

\* mutant: call returns after f without storing COMPLETE
CallComplete_NoStore(t) ==
    /\ opc[t] = "ran"
    /\ opc' = [opc EXCEPT ![t] = "returned"]
    /\ UNCHANGED <<status, ocount, ocalls>>

\* f returned: forget(finish), status.store(COMPLETE), return
CallComplete(t) ==
    /\ opc[t] = "ran"
    /\ status' = COMPLETE
    /\ opc' = [opc EXCEPT ![t] = "returned"]
    /\ UNCHANGED <<ocount, ocalls>>

\* a thread calls call_once (again, after an earlier call returned or its
\* panic was caught at the thread boundary)
OnceTestCall(t) ==
    /\ opc[t] \in {"idle", "returned", "panicked"}
    /\ ocalls[t] < MaxCalls
    /\ ocalls' = [ocalls EXCEPT ![t] = @ + 1]
    /\ opc' = [opc EXCEPT ![t] = "enter"]
    /\ UNCHANGED <<status, ocount>>

\* `f()` for the closure of the Once test: it runs and returns, or it panics
OnceTestF(t) ==
    /\ opc[t] = "run"
    /\ ocount' = ocount + 1
    /\ \E next \in {"ran", "unwind"} : opc' = [opc EXCEPT ![t] = next]
    /\ UNCHANGED <<status, ocalls>>

OnceNext ==
    \E t \in Threads :
        \/ OnceTestCall(t) /\ UNCHANGED <<mvars, rvars, lvars>>
        \/ CallOnce(t) /\ UNCHANGED <<mvars, rvars, lvars>>
        \/ CallCas(t) /\ UNCHANGED <<mvars, rvars, lvars>>
        \/ Poll(t) /\ UNCHANGED <<mvars, rvars, lvars>>
        \/ OnceTestF(t) /\ UNCHANGED <<mvars, rvars, lvars>>
        \/ FinishDrop(t) /\ UNCHANGED <<mvars, rvars, lvars>>
        \/ CallComplete(t) /\ UNCHANGED <<mvars, rvars, lvars>>

\* one step of thread t inside call_once: the steps a scheduler that keeps
\* running t makes it take (the closure included, which terminates)
OnceStep(t) ==
    \/ CallOnce(t)
    \/ CallCas(t)
    \/ Poll(t)
    \/ OnceTestF(t)
    \/ FinishDrop(t)
    \/ CallComplete(t)

(* ---- claims about Once (checked under SpecOnce) ---- *)

\* C5: in total at most one closure is invoked, by the caller that won the
\* INCOMPLETE -> RUNNING exchange, and once any call_once has returned exactly
\* one closure has been invoked and no caller is running or about to run one.
C5_ExactlyOnce ==
    /\ ocount <= 1
    /\ Cardinality({t \in Threads : opc[t] \in {"run", "ran", "unwind"}}) <= 1
    /\ (\E t \in Threads : opc[t] \in {"run", "ran", "unwind"})
           => status = RUNNING
    /\ (\E t \in Threads : opc[t] = "returned")
           => (ocount = 1 /\ \A u \in Threads : opc[u] \notin {"run", "ran", "unwind"})

\* every thread has made all its calls, each last call returned, and the
\* closure ran once
C5_Witness ==
    /\ ocount = 1
    /\ \A t \in Threads : opc[t] = "returned" /\ ocalls[t] = MaxCalls

\* C6: a panic of the winning closure leaves call_once only with the status
\* PANICKED; from then on the status stays PANICKED (is_completed() is false),
\* no closure is invoked and no call_once returns normally.
C6_PoisonPropagation ==
    /\ [](\A t \in Threads : opc[t] = "panicked" => status = PANICKED)
    /\ [](status = PANICKED =>
             /\ ~IsCompleted
             /\ ocount = 1
             /\ \A t \in Threads : opc[t] \notin {"returned", "run", "ran", "unwind"})
    /\ [][status = PANICKED => status' = PANICKED]_vars

\* the winning closure panicked and every thread's last call, made after or
\* during the winner's, panicked too
C6_Witness ==
    /\ status = PANICKED
    /\ \A t \in Threads : opc[t] = "panicked" /\ ocalls[t] = MaxCalls

\* C19: a call_once returns only with the status COMPLETE.  No caller is in
\* the returned position while the status is anything else, the step that
\* returns is taken after the one closure has run and leaves COMPLETE stored,
\* and a caller that polls while the status is RUNNING stays in poll.
C19_ReturnsOnlyWhenComplete ==
    /\ [](\A t \in Threads : opc[t] = "returned" => status = COMPLETE)
    /\ [][\A t \in Threads :
             (opc[t] # "returned" /\ opc'[t] = "returned")
                 => (status' = COMPLETE /\ ocount = 1)]_vars
    /\ [][\A t \in Threads :
             (opc[t] = "poll" /\ status = RUNNING) => opc'[t] = "poll"]_vars

\* the winner has returned and stored COMPLETE while the caller that lost the
\* exchange is still in poll, about to return
C19_Witness ==
    \E t, u \in Threads :
        /\ t # u
        /\ opc[t] = "returned" /\ ocalls[t] = 1
        /\ opc[u] = "poll" /\ ocalls[u] = 1
        /\ status = COMPLETE

\* C20: under fair scheduling of the threads, with a closure that returns or
\* panics, every call_once that has begun eventually ends: it returns or it
\* panics.  (checked under SpecOnceFair)
C20_CallOnceTerminates ==
    \A t \in Threads :
        (opc[t] \in {"enter", "cas", "poll", "run", "ran", "unwind"})
            ~> (opc[t] \in {"returned", "panicked"})

\* a caller spin-waits in poll while the winner is still running its closure
C20_Witness ==
    \E t, u \in Threads :
        /\ t # u
        /\ opc[t] = "poll"
        /\ opc[u] = "run"
        /\ status = RUNNING

(* ============================= OnceLock ================================= *)

\* MaybeUninit::uninit(): the slot holds no value
Uninit == 0

\* the value of the k-th operation of thread t: every call brings its own
Value(t, k) == (t - 1) * MaxCalls + k

NoRet == <<"-", Uninit, Uninit>>

\* OnceLock::new(): Once::new(), slot uninitialised; no thread inside
OnceLockNew ==
    /\ slot = Uninit
    /\ lpc = [t \in Threads |-> "idle"]
    /\ lop = [t \in Threads |-> "-"]
    /\ lval = [t \in Threads |-> Uninit]
    /\ ldata = [t \in Threads |-> FALSE]
    /\ lret = [t \in Threads |-> NoRet]

\* LazyLock::new(f): OnceLock::new(), init = Some(f)
LazyLockNew ==
    /\ OnceLockNew
    /\ linit = TRUE
    /\ fcount = 0

\* is_initialized(): self.once.is_completed()
IsInitialized == IsCompleted

\* a call of `op` begins: get(), which is also the first statement of
\* try_get_or_init.  Initialised: go on to read the slot.  Otherwise get()
\* returns None, and try_get_or_init enters initialized(f), i.e. call_once.
Get(t, op) ==
    /\ lpc[t] = "idle"
    /\ ocalls[t] < MaxCalls
    /\ ocalls' = [ocalls EXCEPT ![t] = @ + 1]
    /\ lop' = [lop EXCEPT ![t] = op]
    /\ lval' = [lval EXCEPT ![t] = IF op \in {"get", "force"} THEN Uninit ELSE Value(t, ocalls[t] + 1)]
    /\ ldata' = [ldata EXCEPT ![t] = (op = "set")]
    /\ lpc' = [lpc EXCEPT ![t] =
                 CASE IsInitialized -> "fetch"
                   [] op = "get" -> "idle"
                   [] OTHER -> "init"]
    /\ opc' = [opc EXCEPT ![t] =
                 IF ~IsInitialized /\ op # "get" THEN "enter" ELSE @]
    /\ lret' = [lret EXCEPT ![t] =
                 IF ~IsInitialized /\ op = "get" THEN <<"none", Uninit, Uninit>> ELSE NoRet]
    /\ UNCHANGED <<status, ocount, slot, linit, fcount>>

\* the operations of an OnceLock a thread may call
OnceLockCall(t) == \E op \in {"get", "set", "get_or_init"} : Get(t, op)

\* mutant: the closure drops f's result instead of writing it to the slot
OnceLockF_NoWrite(t) ==
    /\ opc[t] = "run"
    /\ lop[t] \in {"set", "get_or_init"}
    /\ ocount' = ocount + 1
    /\ \/ /\ ldata' = [ldata EXCEPT ![t] = FALSE]
          /\ opc' = [opc EXCEPT ![t] = "ran"]
       \/ /\ lop[t] = "get_or_init"
          /\ opc' = [opc EXCEPT ![t] = "unwind"]
          /\ UNCHANGED ldata
    /\ UNCHANGED <<status, ocalls, slot, lpc, lop, lval, lret, linit, fcount>>

\* `f()` for the closure initialized() hands to call_once:
\* `match f() { Ok(data) => slot.write(data), ... }`.  For get_or_init f is
\* the caller's closure, which returns its value or panics; for set it is
\* `data.take().unwrap()`, which empties `data` and cannot panic.
OnceLockF(t) ==
    /\ opc[t] = "run"
    /\ lop[t] \in {"set", "get_or_init"}
    /\ ocount' = ocount + 1
    /\ \/ /\ slot' = lval[t]
          /\ ldata' = [ldata EXCEPT ![t] = FALSE]
          /\ opc' = [opc EXCEPT ![t] = "ran"]
       \/ /\ lop[t] = "get_or_init"
          /\ opc' = [opc EXCEPT ![t] = "unwind"]
          /\ UNCHANGED <<slot, ldata>>
    /\ UNCHANGED <<status, ocalls, lpc, lop, lval, lret, linit, fcount>>

\* try_get_or_init after initialized(f): a panic of call_once propagates out
\* of the operation; otherwise `assert!(self.is_initialized())`
AfterInitialized(t) ==
    /\ lpc[t] = "init"
    /\ opc[t] \in {"returned", "panicked"}
    /\ opc' = [opc EXCEPT ![t] = "idle"]
    /\ lpc' = [lpc EXCEPT ![t] =
                 IF opc[t] = "returned" /\ IsInitialized THEN "fetch" ELSE "idle"]
    /\ lret' = [lret EXCEPT ![t] =
                 IF opc[t] = "returned" /\ IsInitialized
                 THEN @ ELSE <<"panic", Uninit, Uninit>>]
    /\ UNCHANGED <<status, ocount, ocalls, slot, lop, lval, ldata, linit, fcount>>

\* mutant: set reports Ok whether or not its closure ran
GetUnchecked_SetAlwaysOk(t) ==
    /\ lpc[t] = "fetch"
    /\ lpc' = [lpc EXCEPT ![t] = "idle"]
    /\ lret' = [lret EXCEPT ![t] =
                 CASE lop[t] = "get" -> <<"some", slot, Uninit>>
                   [] lop[t] = "set" -> <<"ok", Uninit, Uninit>>
                   [] OTHER -> <<"ref", slot, Uninit>>]
    /\ UNCHANGED <<ovars, slot, lop, lval, ldata, linit, fcount>>

\* mutant: get_or_init hands back the caller's own value, not the slot's
GetUnchecked_OwnValue(t) ==
    /\ lpc[t] = "fetch"
    /\ lpc' = [lpc EXCEPT ![t] = "idle"]
    /\ lret' = [lret EXCEPT ![t] =
                 CASE lop[t] = "get" -> <<"some", slot, Uninit>>
                   [] lop[t] = "set" /\ ldata[t] -> <<"err", slot, lval[t]>>
                   [] lop[t] = "set" -> <<"ok", Uninit, Uninit>>
                   [] OTHER -> <<"ref", lval[t], Uninit>>]
    /\ UNCHANGED <<ovars, slot, lop, lval, ldata, linit, fcount>>

\* get_unchecked(): read the slot; the operation returns.  get: Some(&T).
\* get_or_init / force: &T.  set: `match data { None => Ok(()),
\* Some(value) => Err((res, value)) }`.
GetUnchecked(t) ==
    /\ lpc[t] = "fetch"
    /\ lpc' = [lpc EXCEPT ![t] = "idle"]
    /\ lret' = [lret EXCEPT ![t] =
                 CASE lop[t] = "get" -> <<"some", slot, Uninit>>
                   [] lop[t] = "set" /\ ldata[t] -> <<"err", slot, lval[t]>>
                   [] lop[t] = "set" -> <<"ok", Uninit, Uninit>>
                   [] OTHER -> <<"ref", slot, Uninit>>]
    /\ UNCHANGED <<ovars, slot, lop, lval, ldata, linit, fcount>>

OnceLockNext ==
    \E t \in Threads :
        \/ OnceLockCall(t) /\ UNCHANGED <<mvars, rvars>>
        \/ CallOnce(t) /\ UNCHANGED <<mvars, rvars, lvars>>
        \/ CallCas(t) /\ UNCHANGED <<mvars, rvars, lvars>>
        \/ Poll(t) /\ UNCHANGED <<mvars, rvars, lvars>>
        \/ OnceLockF(t) /\ UNCHANGED <<mvars, rvars>>
        \/ FinishDrop(t) /\ UNCHANGED <<mvars, rvars, lvars>>
        \/ CallComplete(t) /\ UNCHANGED <<mvars, rvars, lvars>>
        \/ AfterInitialized(t) /\ UNCHANGED <<mvars, rvars>>
        \/ GetUnchecked(t) /\ UNCHANGED <<mvars, rvars>>

(* ---- claims about OnceLock (checked under SpecOnceLock) ---- *)

\* C7: over all get_or_init (and set) calls at most one closure is evaluated;
\* every get_or_init that returns hands back the value that one evaluation
\* wrote, which is the caller's own value only for the caller whose closure
\* ran; and the stored value never changes afterwards, so later calls with
\* other closures see it too.
C7_OneEvaluationOneValue ==
    /\ [](ocount <= 1)
    /\ [](\A t \in Threads :
             lret[t][1] = "ref" =>
                 /\ ocount = 1
                 /\ slot # Uninit
                 /\ lret[t][2] = slot)
    /\ [][slot # Uninit => (slot' = slot /\ ocount' = ocount)]_vars

\* a get_or_init whose closure was not the one evaluated returned the value
\* of another caller's closure, and that caller returned it as well
C7_Witness ==
    \E t, u \in Threads :
        /\ t # u
        /\ lop[t] = "get_or_init" /\ lop[u] = "get_or_init"
        /\ lret[t] = <<"ref", lval[t], Uninit>>
        /\ lret[u] = <<"ref", lval[t], Uninit>>
        /\ lval[u] # lval[t]
        /\ ocount = 1

\* C10: a set that returns gives Ok exactly when the stored value is the one
\* this call brought, and otherwise Err((stored value, rejected value)); the
\* stored value never changes once written; at most one thread holds an Ok;
\* and a set ends in a panic only on a poisoned cell.
C10_SetResult ==
    /\ [](\A t \in Threads :
             /\ lret[t][1] = "ok" => (lop[t] = "set" /\ slot = lval[t])
             /\ lret[t][1] = "err" =>
                    /\ lop[t] = "set"
                    /\ slot # Uninit
                    /\ slot # lval[t]
                    /\ lret[t] = <<"err", slot, lval[t]>>
             /\ (lop[t] = "set" /\ lret[t][1] = "panic") => status = PANICKED)
    /\ [](Cardinality({t \in Threads : lret[t][1] = "ok"}) <= 1)
    /\ [][slot # Uninit => slot' = slot]_vars

\* two threads each called set once on the same cell: one returned Ok, the
\* other Err carrying the stored value and its own rejected value
C10_Witness ==
    \E t, u \in Threads :
        /\ t # u
        /\ lop[t] = "set" /\ lop[u] = "set"
        /\ ocalls[t] = 1 /\ ocalls[u] = 1
        /\ lret[t] = <<"ok", Uninit, Uninit>>
        /\ lret[u] = <<"err", lval[t], lval[u]>>

\* C11 as claimed (the OnceLock part; try_read and try_write have no
\* panicking path): OnceLock::set never ends in a panic, it returns Ok or Err
\* in every state of the cell, a poisoned one included.
C11_SetNeverPanics ==
    \A t \in Threads : lop[t] = "set" => lret[t][1] # "panic"

\* C11 as amended: a set ends in a panic only on a poisoned cell (status
\* PANICKED); a set that ends while the cell is not poisoned returns Ok or Err.
C11_SetPanicsOnlyWhenPoisoned ==
    /\ [](\A t \in Threads :
             (lop[t] = "set" /\ lret[t][1] = "panic") => status = PANICKED)
    /\ [][\A t \in Threads :
             (lop[t] = "set" /\ lpc[t] # "idle" /\ lpc'[t] = "idle"
                  /\ status' # PANICKED)
                 => lret'[t][1] \in {"ok", "err"}]_vars

\* a set on a cell poisoned by another thread's get_or_init ended in a panic
C11_Witness ==
    \E t, u \in Threads :
        /\ t # u
        /\ lop[t] = "set" /\ lpc[t] = "idle" /\ lret[t][1] = "panic"
        /\ lop[u] = "get_or_init" /\ lret[u][1] = "panic"
        /\ status = PANICKED

\* C12: once the closure of the winning get_or_init has panicked (the status
\* is PANICKED) the cell stays uninitialised (the status stays PANICKED, the
\* slot is never written, every get returns None), no closure is evaluated
\* again, and every get_or_init or set that ends, ends in a panic.
C12_PoisonedCell ==
    /\ [](status = PANICKED =>
             /\ ~IsInitialized
             /\ slot = Uninit
             /\ ocount = 1
             /\ \A t \in Threads :
                    /\ opc[t] \notin {"run", "ran", "unwind", "returned"}
                    /\ lret[t][1] \in {"-", "none", "panic"}
                    /\ (lpc[t] = "idle" /\ lop[t] \in {"get_or_init", "set"})
                           => lret[t][1] = "panic")
    /\ [][status = PANICKED => (status' = PANICKED /\ ocount' = ocount)]_vars

\* the cell is poisoned, one thread's later get_or_init has panicked, and
\* another thread's get on the poisoned cell returned None
C12_Witness ==
    \E t, u \in Threads :
        /\ t # u
        /\ status = PANICKED
        /\ lpc[t] = "idle" /\ lop[t] = "get_or_init" /\ ocalls[t] = MaxCalls
        /\ lret[t][1] = "panic"
        /\ lpc[u] = "idle" /\ lop[u] = "get" /\ ocalls[u] = MaxCalls
        /\ lret[u][1] = "none"

\* C13 as claimed: in every reachable state the slot holds a written value
\* if and only if the status is COMPLETE.
C13_SlotIffComplete ==
    (slot # Uninit) <=> IsCompleted

\* C13 as amended: the slot holds a written value whenever the status is
\* COMPLETE; it holds one without COMPLETE only while the winner, having
\* written it inside its closure, has not yet stored COMPLETE (the status is
\* RUNNING); once written it is never written again; a get returns Some only
\* of the stored value and only when COMPLETE, and None only when not COMPLETE.
C13_SlotWrittenBeforeComplete ==
    /\ [](IsCompleted => slot # Uninit)
    /\ []((slot # Uninit /\ ~IsCompleted) =>
             (status = RUNNING /\ \E t \in Threads : opc[t] = "ran"))
    /\ [](\A t \in Threads :
             lret[t][1] = "some" => (IsCompleted /\ lret[t][2] = slot))
    /\ [][slot # Uninit => slot' = slot]_vars
    /\ [][\A t \in Threads :
             (ocalls'[t] # ocalls[t] /\ lret'[t][1] = "none") => ~IsCompleted]_vars

\* the winner has written the slot and not yet stored COMPLETE, while another
\* thread's get has just returned None
C13_Witness ==
    \E t, u \in Threads :
        /\ t # u
        /\ opc[t] = "ran" /\ slot = lval[t] /\ status = RUNNING
        /\ lop[u] = "get" /\ lret[u][1] = "none"

(* ============================= LazyLock ================================= *)

\* the value the initializer of the LazyLock test produces (`|| 1 + 3`)
LazyValue == 4

\* the operations of a LazyLock a thread may call: deref (force) and get
LazyLockCall(t) == \E op \in {"force", "get"} : Get(t, op)

\* mutant: the result of F is dropped instead of written to the slot
LazyLockF_NoWrite(t) ==
    /\ opc[t] = "run"
    /\ lop[t] = "force"
    /\ ocount' = ocount + 1
    /\ linit' = FALSE
    /\ IF linit
       THEN /\ fcount' = fcount + 1
            /\ \E next \in {"ran", "unwind"} : opc' = [opc EXCEPT ![t] = next]
       ELSE /\ opc' = [opc EXCEPT ![t] = "unwind"]
            /\ UNCHANGED fcount
    /\ UNCHANGED <<status, ocalls, slot, lpc, lop, lval, ldata, lret>>

\* `f()` for the closure force hands down to call_once:
\* `match this.init.take() { Some(f) => f(), None => panic!(..) }`, whose
\* result initialized() writes to the slot.  F returns its value or panics.
LazyLockF(t) ==
    /\ opc[t] = "run"
    /\ lop[t] = "force"
    /\ ocount' = ocount + 1
    /\ linit' = FALSE
    /\ IF linit
       THEN /\ fcount' = fcount + 1
            /\ \/ /\ slot' = LazyValue
                  /\ opc' = [opc EXCEPT ![t] = "ran"]
               \/ /\ opc' = [opc EXCEPT ![t] = "unwind"]
                  /\ UNCHANGED slot
       ELSE /\ opc' = [opc EXCEPT ![t] = "unwind"]
            /\ UNCHANGED <<fcount, slot>>
    /\ UNCHANGED <<status, ocalls, lpc, lop, lval, ldata, lret>>

LazyLockNext ==
    \E t \in Threads :
        \/ LazyLockCall(t) /\ UNCHANGED <<mvars, rvars>>
        \/ CallOnce(t) /\ UNCHANGED <<mvars, rvars, lvars>>
        \/ CallCas(t) /\ UNCHANGED <<mvars, rvars, lvars>>
        \/ Poll(t) /\ UNCHANGED <<mvars, rvars, lvars>>
        \/ LazyLockF(t) /\ UNCHANGED <<mvars, rvars>>
        \/ FinishDrop(t) /\ UNCHANGED <<mvars, rvars, lvars>>
        \/ CallComplete(t) /\ UNCHANGED <<mvars, rvars, lvars>>
        \/ AfterInitialized(t) /\ UNCHANGED <<mvars, rvars>>
        \/ GetUnchecked(t) /\ UNCHANGED <<mvars, rvars>>

(* ---- claims about LazyLock (checked under SpecLazyLock) ---- *)

\* C8: the initializer F is invoked at most once in total, and every forced
\* access that returns, from any thread and at any later time, hands back the
\* value that one invocation produced.
C8_LazySingleEvaluation ==
    /\ [](fcount <= 1)
    /\ [](\A t \in Threads :
             (lop[t] = "force" /\ lret[t][1] = "ref") =>
                 (fcount = 1 /\ lret[t] = <<"ref", LazyValue, Uninit>>))
    /\ [][slot # Uninit => (slot' = slot /\ fcount' = fcount)]_vars

\* two threads each forced the value once and both got the value of the
\* single invocation of F
C8_Witness ==
    /\ fcount = 1
    /\ \A t \in Threads :
           /\ lop[t] = "force"
           /\ ocalls[t] = 1
           /\ lret[t] = <<"ref", LazyValue, Uninit>>

\* C15: when F panics in the first forced evaluation the instance is left
\* poisoned for good; from then on F is not invoked again (it was invoked
\* exactly once and is gone), the slot stays unwritten, every forced
\* evaluation that ends, ends in a panic, and every get() returns None.
C15_LazyPoisoned ==
    /\ [][\A t \in Threads :
             (opc[t] = "unwind" /\ opc'[t] # "unwind") => status' = PANICKED]_vars
    /\ [](status = PANICKED =>
             /\ fcount = 1 /\ ~linit /\ slot = Uninit
             /\ \A t \in Threads :
                    /\ opc[t] \notin {"run", "ran", "unwind", "returned"}
                    /\ (lpc[t] = "idle" /\ lop[t] = "force") => lret[t][1] = "panic"
                    /\ (lpc[t] = "idle" /\ lop[t] = "get") => lret[t][1] = "none")
    /\ [][status = PANICKED => (status' = PANICKED /\ fcount' = fcount)]_vars

\* F was invoked once and panicked, and every thread has since ended its last
\* forced evaluation in a panic
C15_Witness ==
    /\ status = PANICKED
    /\ fcount = 1
    /\ \A t \in Threads :
           /\ lop[t] = "force"
           /\ lpc[t] = "idle"
           /\ ocalls[t] = MaxCalls
           /\ lret[t][1] = "panic"

Init == MutexNew /\ RWLockNew /\ OnceNew /\ LazyLockNew

SpecMutex == Init /\ [][MutexNext]_vars

SpecRWLock == Init /\ [][RWLockNext]_vars

\* the RWLock under a fair scheduler: a pending call that can make progress
\* is eventually run and every guard is eventually dropped; beginning a new
\* acquisition is left to the threads
SpecRWLockFair ==
    /\ Init
    /\ [][RWLockNext]_vars
    /\ \A t \in Threads : WF_vars(RWLockStep(t) /\ UNCHANGED <<mvars, ovars, lvars>>)

SpecOnce == Init /\ [][OnceNext]_vars

\* the Once test under a fair scheduler: a thread inside call_once that can
\* take a step is eventually run
SpecOnceFair ==
    /\ Init
    /\ [][OnceNext]_vars
    /\ \A t \in Threads : WF_vars(OnceStep(t) /\ UNCHANGED <<mvars, rvars, lvars>>)

SpecOnceLock == Init /\ [][OnceLockNext]_vars

SpecLazyLock == Init /\ [][LazyLockNext]_vars

=============================================================================
